---- MODULE Spec2Model ----
(***************************************************************************)
(* A model of the NanoVNA client (src/nanovna.py) and of the RF            *)
(* multiplexer reader built on it (src/rf_mux.py, src/main.py).            *)
(*                                                                         *)
(* Numbers.  Frequencies are exact rationals <<n, d>> (d >= 1, lowest      *)
(* terms) counted in kHz, so that numpy.linspace is modelled in real       *)
(* arithmetic; one MHz, 1e6 Hz in the source, is MHz = 1000 units.         *)
(* A reflection sample is a complex number <<re, im>> counted in tenths.   *)
(* A magnitude in dB is the ceiling, in whole dB, of 20*log10(|s|): the    *)
(* ceiling commutes with min and with "<= t" for a whole-dB threshold t,   *)
(* which are the only uses the source makes of a dB value.                 *)
(***************************************************************************)
EXTENDS Integers, Sequences, FiniteSets, TLC

VARIABLES
    mux,    \* the RFMultiplexer object: size, address_dict, window fields
    vna,    \* the NanoVNA object: frequencies (the stored axis), points
    pc,     \* where the running call stands ("idle" between calls)
    sc,     \* the locals of a running NanoVNA.scan()
    dev,    \* the instrument at the far end of the serial line
    cmds,   \* the commands written to the serial line by the running call
    call,   \* the arguments and the outcome of the latest _detect_bit call
    rd,     \* the locals of a running RFMultiplexer.read()
    seen,   \* every _detect_bit call made so far: arguments and outcome
    io,     \* the serial session of the NanoVNA and the line to the instrument
    ra      \* the locals of a running RFMultiplexer.readAll()

vars == <<mux, vna, pc, sc, dev, cmds, call, rd, seen, io, ra>>

----------------------------------------------------------------------------
(* Bounds of the model.                                                     *)

MaxLen == 3          \* longest axis handed to a direct _detect_bit call
MaxBitWidth == 1     \* bit_width ranges over 0..MaxBitWidth (MHz)
MaxBitPadding == 1   \* bit_padding ranges over 0..MaxBitPadding (MHz)
MaxSegments == 2     \* the longest stored axis fills MaxSegments segments

(* Program constants.                                                       *)

MHz == 1000                  \* 1e6 Hz, in kHz
segment_length == 101        \* NanoVNA.scan
NegInf == -1000              \* 20*log10(0): numpy's -inf, below every dB value

----------------------------------------------------------------------------
(* Exact rationals.                                                         *)

RECURSIVE GCD(_, _)
GCD(a, b) == IF b = 0 THEN a ELSE GCD(b, a % b)

Abs(x) == IF x < 0 THEN -x ELSE x

Min(a, b) == IF a <= b THEN a ELSE b
Max(a, b) == IF a >= b THEN a ELSE b

\* n/d in lowest terms, d >= 1.
Rat(n, d) ==
    LET g == GCD(Abs(n), Abs(d))
        s == IF d < 0 THEN -1 ELSE 1
    IN  <<(s * n) \div g, (s * d) \div g>>

\* Comparisons over the least common denominator.
RatLE(x, y) ==
    LET g == GCD(x[2], y[2])
    IN  x[1] * (y[2] \div g) <= y[1] * (x[2] \div g)
RatLT(x, y) == ~RatLE(y, x)
RatOfInt(n) == <<n, 1>>

RatAdd(x, y) ==
    LET l == (x[2] \div GCD(x[2], y[2])) * y[2]
    IN  Rat(x[1] * (l \div x[2]) + y[1] * (l \div y[2]), l)

RatNeg(x) == <<-x[1], x[2]>>

\* The product, cancelling across before multiplying.
RatMul(x, y) ==
    LET g1 == GCD(Abs(x[1]), y[2])
        g2 == GCD(Abs(y[1]), x[2])
    IN  Rat((x[1] \div g1) * (y[1] \div g2), (x[2] \div g2) * (y[2] \div g1))

\* numpy.linspace(start, stop, num): start + i*step, i = 0..num-1, with
\* step = (stop-start)/(num-1); [start] when num = 1, empty when num = 0.
Linspace(start, stop, num) ==
    LET step == RatMul(RatAdd(stop, RatNeg(start)), Rat(1, Max(num - 1, 1)))
    IN  [i \in 1..num |-> RatAdd(start, RatMul(step, RatOfInt(i - 1)))]

\* int(x) for a frequency x >= 0 given in kHz, as the source formats it: whole Hz.
IntHz(x) == (x[1] \div x[2]) * 1000 + ((x[1] % x[2]) * 1000) \div x[2]

\* The stored axis before set_frequencies or fetch_frequencies ran (None in the
\* source): a one-point sequence holding 0/0, which no axis contains.
FrequenciesNone == << <<0, 0>> >>

----------------------------------------------------------------------------
(* dB magnitude: 20 * np.log10(np.abs(s11)).                                *)

\* |s|^2 in hundredths.
AbsSq(s) == s[1] * s[1] + s[2] * s[2]

\* floor(100 * 10^(d/10)) for d = -20 .. 4.
PowerOfDb ==
    <<1, 1, 1, 1, 2, 3, 3, 5, 6, 7, 10, 12, 15, 19, 25, 31, 39, 50, 63, 79,
      100, 125, 158, 199, 251>>

\* The least whole d with 20*log10(|s|) <= d; NegInf for s = 0.
LogMagDb(s) ==
    IF AbsSq(s) = 0 THEN NegInf
    ELSE (CHOOSE k \in 1..Len(PowerOfDb) :
            /\ AbsSq(s) <= PowerOfDb[k]
            /\ \A j \in 1..(k - 1) : AbsSq(s) > PowerOfDb[j]) - 21

SeqMin(S) == CHOOSE x \in S : \A y \in S : x <= y

----------------------------------------------------------------------------
(* RFMultiplexer.__init__ and _detect_bit.                                  *)

HiStartNoPadding(bit_start, bit_width, bit_padding) == bit_start + bit_width

\* self.hi_start = bit_start + bit_width + bit_padding
HiStart(bit_start, bit_width, bit_padding) == bit_start + bit_width + bit_padding

\* The fields __init__ sets; dip_threshold is the literal of _detect_bit
\* (-10 in rf_mux.py, -5 in main.py); pins are the switch adapter's outputs
\* <<LS, V4, V3, V2, V1>>, all low when created.
MuxInit(size, bit_width, bit_start, bit_padding, dip_threshold) ==
    [size |-> size,
     address_dict |-> <<>>,
     bit_width |-> bit_width,
     lo_start |-> bit_start,
     bit_padding |-> bit_padding,
     hi_start |-> HiStart(bit_start, bit_width, bit_padding),
     dip_threshold |-> dip_threshold,
     pins |-> <<0, 0, 0, 0, 0>>]

\* lo_range / hi_range, in kHz.
LoRange(m) == <<m.lo_start * MHz, (m.lo_start + m.bit_width) * MHz>>
HiRange(m) == <<m.hi_start * MHz, (m.hi_start + m.bit_width) * MHz>>

\* (frequencies >= range[0]) & (frequencies <= range[1]), as the set of indices.
Mask(frequencies, range) ==
    {i \in 1..Len(frequencies) :
        /\ RatLE(RatOfInt(range[1]), frequencies[i])
        /\ RatLE(frequencies[i], RatOfInt(range[2]))}

LoMask(m, frequencies) == Mask(frequencies, LoRange(m))
HiMask(m, frequencies) == Mask(frequencies, HiRange(m))

\* np.min(s11_db[mask]) for a non-empty mask.
Dip(s11, mask) == SeqMin({LogMagDb(s11[i]) : i \in mask})

DecideHiFirst(lo_dip, hi_dip, dip_threshold) ==
    IF hi_dip <= dip_threshold THEN "1"
    ELSE IF lo_dip <= dip_threshold THEN "0"
    ELSE "None"

DecideStrict(lo_dip, hi_dip, dip_threshold) ==
    IF lo_dip < dip_threshold THEN "0"
    ELSE IF hi_dip < dip_threshold THEN "1"
    ELSE "None"

\* The comparisons of _detect_bit, in the order the source makes them.
Decide(lo_dip, hi_dip, dip_threshold) ==
    IF lo_dip <= dip_threshold THEN "0"
    ELSE IF hi_dip <= dip_threshold THEN "1"
    ELSE "None"

\* A _detect_bit whose minimum over an empty selection is 0 dB.
DetectBitNoRaise(m, frequencies, s11) ==
    IF Len(frequencies) # Len(s11) THEN "IndexError"
    ELSE Decide(IF LoMask(m, frequencies) = {} THEN 0
                ELSE Dip(s11, LoMask(m, frequencies)),
                IF HiMask(m, frequencies) = {} THEN 0
                ELSE Dip(s11, HiMask(m, frequencies)),
                m.dip_threshold)

\* A _detect_bit that answers None once the object holds a stored bit.
DetectBitStateful(m, frequencies, s11) ==
    IF Len(frequencies) # Len(s11) THEN "IndexError"
    ELSE IF LoMask(m, frequencies) = {} THEN "ValueError"
    ELSE IF HiMask(m, frequencies) = {} THEN "ValueError"
    ELSE IF DOMAIN m.address_dict # {} THEN "None"
    ELSE Decide(Dip(s11, LoMask(m, frequencies)),
                Dip(s11, HiMask(m, frequencies)),
                m.dip_threshold)

\* _detect_bit(self, frequencies, s11): "0", "1" or "None" when it returns;
\* "IndexError" when the boolean mask and s11_db differ in length, "ValueError"
\* when np.min is taken over an empty selection (both dips are computed
\* before any comparison).
DetectBit(m, frequencies, s11) ==
    IF Len(frequencies) # Len(s11) THEN "IndexError"
    ELSE IF LoMask(m, frequencies) = {} THEN "ValueError"
    ELSE IF HiMask(m, frequencies) = {} THEN "ValueError"
    ELSE Decide(Dip(s11, LoMask(m, frequencies)),
                Dip(s11, HiMask(m, frequencies)),
                m.dip_threshold)

Decisions == {"0", "1", "None"}

----------------------------------------------------------------------------
(* The objects after construction.                                          *)

\* NanoVNA.__init__
VnaInit == [frequencies |-> FrequenciesNone, points |-> 101]

\* No scan has run: the locals of scan(), the axis its loop started from
\* (axis), the index range <<first, length>> of each segment it scanned
\* (segs), who called it, the axis that was stored when it was called
\* (stored), and, when it directly follows a returned scan, that scan's
\* scan commands and the axis it left (prev).
ScIdle == [freqs |-> <<>>, array0 |-> <<>>, array1 |-> <<>>,
           frequencies_used |-> <<>>, axis |-> <<>>, segs |-> <<>>,
           caller |-> "direct", stored |-> <<>>, prev |-> <<>>]

\* NanoVNA.__init__ leaves self.serial None (0 here; an open connection is a
\* positive handle).  Beside it: the connections the host holds open, how
\* many it ever opened, the bytes received and not yet read (rx, as items),
\* the commands the instrument has received and not yet echoed (tx), the
\* command it has echoed and not yet answered (busy), the position of the
\* running method (pc, op), the lines fetch_data has accumulated (acc), the
\* result of the last data or frequencies call, and what the history keeps:
\* how many commands were written, how many written commands' prompts are
\* still unread, whether a read consumed an item that was already received
\* when its command was written, and the last method that finished.
IoClosed ==
    [serial |-> 0, conns |-> {}, opened |-> 0, rx |-> <<>>, tx |-> <<>>,
     busy |-> <<>>, pc |-> "idle", op |-> <<>>, acc |-> <<>>,
     result |-> [error |-> "none", x |-> <<>>], raw |-> <<>>,
     written |-> 0, unread |-> 0, stale_read |-> FALSE,
     last |-> [op |-> "init", was |-> 0], silent |-> FALSE]

\* No readAll() is running: the module the multiplexer class comes from
\* (rf_mux.py or main.py), whether a batch runs, the port its loop is at, its
\* results so far, and the ports it has read, in order.
RaIdle == [impl |-> "rf_mux", active |-> FALSE, port |-> 0, results |-> <<>>,
           order |-> <<>>]

\* No read() is running.
RdIdle == [port |-> 0, freqs |-> <<>>]

\* What the history keeps of a _detect_bit call c made on the multiplexer m:
\* its arguments, its outcome, and the bit map the object held at the call.
Observed(m, c) ==
    [frequencies |-> c.frequencies, s11 |-> c.s11, result |-> c.result,
     address_dict |-> m.address_dict]

\* No _detect_bit call has been made.
CallIdle == [frequencies |-> <<>>, s11 |-> <<>>, result |-> "pending"]

\* An instrument that answers every request in full: the band <<lo, hi>> in
\* kHz where the device under test now connected reflects little (empty when
\* lo > hi), the bands of the devices behind the switch's ports, the ordinal
\* of the segment whose transfers glitch (0: none), how many of that
\* segment's first sweeps within one scan come back short, whether all do,
\* and how many points it sweeps while no scan command has told it.
DevIdle == [dip |-> <<1, 0>>, duts |-> <<>>, target |-> 0, short_first |-> 0,
            forever |-> FALSE, points |-> 101]

----------------------------------------------------------------------------
(* SpecDetect: _detect_bit as a function of its arguments.                  *)

\* The arguments tried: window parameters, both threshold literals, every
\* strictly increasing axis of whole-MHz points up to MaxLen long, and every
\* sample array of the same length over SampleVals.
BitStarts == {1, 2}
Thresholds == {-10, -5}
MaxFreq == 2 + 2 * MaxBitWidth + MaxBitPadding + 1

\* 0 dB; -5.38 dB; -10 dB exactly.
SampleVals == {<<10, 0>>, <<5, 2>>, <<3, 1>>}

SeqsOf(S, n) == [1..n -> S]

Increasing(a) == \A i \in 1..(Len(a) - 1) : RatLT(a[i], a[i + 1])

TestAxes ==
    {a \in UNION {SeqsOf({RatOfInt(f * MHz) : f \in 0..MaxFreq}, n) : n \in 0..MaxLen} :
        Increasing(a)}

InitDetect ==
    /\ \E w \in 0..MaxBitWidth, p \in 0..MaxBitPadding, b \in BitStarts,
          t \in Thresholds :
            mux = MuxInit(12, w, b, p, t)
    /\ \E a \in TestAxes : \E s \in SeqsOf(SampleVals, Len(a)) :
            call = [frequencies |-> a, s11 |-> s, result |-> "pending"]
    /\ vna = VnaInit
    /\ pc = "idle"
    /\ sc = ScIdle
    /\ dev = DevIdle
    /\ cmds = <<>>
    /\ rd = RdIdle
    /\ seen = {}
    /\ io = IoClosed
    /\ ra = RaIdle

\* One call of _detect_bit on the drawn arguments.
DetectCall ==
    /\ call.result = "pending"
    /\ call' = [call EXCEPT !.result = DetectBit(mux, call.frequencies, call.s11)]
    /\ seen' = seen \cup {Observed(mux, call')}
    /\ UNCHANGED <<mux, vna, pc, sc, dev, cmds, rd, io, ra>>

NextDetect == DetectCall

SpecDetect == InitDetect /\ [][NextDetect]_vars

----------------------------------------------------------------------------
(* Claims about _detect_bit, checked under SpecDetect.                      *)

\* |s| is at or below t dB, stated on the power |s|^2 (hundredths) instead of
\* the dB value: |s|^2 <= 10^(t/10), squared; t is a multiple of 5.
RECURSIVE Pow10(_)
Pow10(k) == IF k = 0 THEN 1 ELSE 10 * Pow10(k - 1)
DipsTo(s, t) == AbsSq(s) * AbsSq(s) * Pow10((-t) \div 5) <= 10000

Called == call.result # "pending"
LoIdx == LoMask(mux, call.frequencies)
HiIdx == HiMask(mux, call.frequencies)
LoDips == \E i \in LoIdx : DipsTo(call.s11[i], mux.dip_threshold)
HiDips == \E i \in HiIdx : DipsTo(call.s11[i], mux.dip_threshold)

\* C1: with both windows non-empty, _detect_bit returns 0 if some low-window
\* sample is at or below the threshold, otherwise 1 if some high-window sample
\* is, otherwise None; nothing else.
C1_FixedOrderRule ==
    (Called /\ LoIdx # {} /\ HiIdx # {}) =>
        call.result = (IF LoDips THEN "0" ELSE IF HiDips THEN "1" ELSE "None")

\* C1's case: a high-window-only dip among two high-window samples gives 1.
C1_Witness ==
    /\ Called /\ LoIdx # {} /\ Cardinality(HiIdx) >= 2
    /\ ~LoDips /\ HiDips /\ call.result = "1"

\* C2: a dip at or below the threshold in both windows is reported as bit 0,
\* for the -10 dB literal of rf_mux.py and the -5 dB literal of main.py.
C2_TieBreakLow ==
    (Called /\ LoDips /\ HiDips) => call.result = "0"

C2_Witness ==
    /\ Called /\ LoDips /\ HiDips /\ LoIdx \cap HiIdx = {}
    /\ mux.dip_threshold = -5 /\ call.result = "0"

WindowsDisjoint ==
    /\ mux.lo_start + mux.bit_width < mux.hi_start
    /\ LoIdx \cap HiIdx = {}

\* C3 as amended: with width >= 0 and padding > 0 the windows do not overlap,
\* loStart + width < hiStart, and no sample is in both masks.
C3_DisjointWhenPadded ==
    (mux.bit_width >= 0 /\ mux.bit_padding > 0) => WindowsDisjoint

C3_Witness ==
    /\ Called /\ mux.bit_padding > 0 /\ mux.bit_width > 0
    /\ Cardinality(LoIdx) >= 2 /\ HiIdx # {}

\* C3 as stated: the same for every width >= 0 and padding >= 0.
C3_Original ==
    (mux.bit_width >= 0 /\ mux.bit_padding >= 0) => WindowsDisjoint

\* C4: when either window holds no sample the call ends in an error, never in
\* a decision, also when the other window alone would decide the bit.
C4_EmptyWindowFails ==
    (Called /\ (LoIdx = {} \/ HiIdx = {})) =>
        (call.result = "ValueError" /\ call.result \notin Decisions)

\* C4's case: the low window dips, the high window is empty, the call fails.
C4_Witness ==
    /\ Called /\ LoDips /\ HiIdx = {} /\ call.result = "ValueError"

----------------------------------------------------------------------------
(* NanoVNA: the stored axis, the commands and the segmented scan.           *)

\* One command written by send_command: its word and its arguments.
Cmd(name, args) == [name |-> name, args |-> args]

\* set_frequencies(start, stop, points); points = 0 stands for None.
SetFrequenciesVna(v, start, stop, points) ==
    LET pts == IF points # 0 THEN points ELSE v.points
    IN  [v EXCEPT !.points = pts, !.frequencies = Linspace(start, stop, pts)]

\* fetch_frequencies(), the device listing the axis `listed`.
FetchFrequenciesVna(v, listed) == [v EXCEPT !.frequencies = listed]

\* send_scan(start, stop, points)
SendScan(start, stop, points) ==
    IF points # 0 THEN Cmd("scan", <<IntHz(start), IntHz(stop), points>>)
    ELSE Cmd("scan", <<IntHz(start), IntHz(stop)>>)

\* The loop body of scan(): length, seg_start, seg_stop and the slice kept.
SegLength(freqs) == Min(segment_length, Len(freqs))
SegStartLast(freqs) == freqs[Len(freqs)]
SegStart(freqs) == freqs[1]
SegStopNext(freqs, length) == freqs[Min(length + 1, Len(freqs))]
SegStop(freqs, length) == freqs[length]
RestFreqsOverlap(freqs) == SubSeq(freqs, segment_length, Len(freqs))
RestFreqs(freqs) == SubSeq(freqs, segment_length + 1, Len(freqs))

\* The instrument.  The a-th sweep of segment k within one scan comes back
\* two points short (99 of 101) when k is the glitching segment and a is
\* among its first short_first sweeps, or all its sweeps are short.
SweepShort(d, k, a) == k = d.target /\ (d.forever \/ a <= d.short_first)
ReturnedPoints(d, k, a, length) ==
    IF SweepShort(d, k, a) THEN Max(0, length - 2) ELSE length

\* How many times the commands written so far hold the command c.
Times(log, c) == Cardinality({i \in 1..Len(log) : log[i] = c})

\* What the device under test reflects at frequency f: channel 0 dips to
\* -10 dB inside the band and is at 0 dB outside it; channel 1 is at -20 dB.
DeviceSample(d, ch, f) ==
    IF ch = 1 THEN <<1, 0>>
    ELSE IF RatLE(RatOfInt(d.dip[1]), f) /\ RatLE(f, RatOfInt(d.dip[2]))
         THEN <<3, 1>> ELSE <<10, 0>>

\* data(array) after a sweep of `points` points from start to stop, of which
\* the instrument sends n lines: one sample per line, in sweep order.
DeviceData(d, ch, start, stop, points, n) ==
    LET swept == Linspace(start, stop, points)
    IN  [i \in 1..n |-> DeviceSample(d, ch, swept[Min(i, points)])]

\* No call is running.
Idle ==
    /\ pc \in {"idle", "scan_returned", "scan_raised", "read_returned",
               "read_raised", "readall_returned", "readall_raised"}
    /\ ~ra.active

\* set_frequencies, called between scans.
SetFrequencies(start, stop, points) ==
    /\ Idle
    /\ vna' = SetFrequenciesVna(vna, start, stop, points)
    /\ pc' = "idle"
    /\ sc' = ScIdle
    /\ cmds' = <<>>
    /\ UNCHANGED <<mux, dev, call, rd, seen, io, ra>>

\* scan(), up to the loop: fresh buffers, the axis fetched if none is stored.
ScanEnter(listed, caller) ==
    LET fetch == vna.frequencies = FrequenciesNone
        axis == IF fetch THEN listed ELSE vna.frequencies
    IN  /\ vna' = IF fetch THEN FetchFrequenciesVna(vna, listed) ELSE vna
        /\ cmds' = (IF caller = "direct" THEN <<>> ELSE cmds)
                     \o (IF fetch THEN <<Cmd("frequencies", <<>>)>> ELSE <<>>)
        /\ sc' = [freqs |-> axis, array0 |-> <<>>, array1 |-> <<>>,
                  frequencies_used |-> <<>>, axis |-> axis, segs |-> <<>>,
                  caller |-> caller, stored |-> vna.frequencies,
                  prev |-> IF pc = "scan_returned"
                           THEN <<[cmds |-> SelectSeq(cmds,
                                       LAMBDA c : c.name = "scan"),
                                   axis |-> vna.frequencies]>>
                           ELSE <<>>]
        /\ pc' = "scan_loop"

\* scan() called on the NanoVNA directly.
ScanBegin(listed) ==
    /\ Idle
    /\ ScanEnter(listed, "direct")
    /\ UNCHANGED <<mux, dev, call, rd, seen, io, ra>>

\* One pass of the while loop: the scan command, both data fetches, the
\* segment's linear sub-axis, and the slice that remains.
ScanSegment ==
    /\ pc = "scan_loop"
    /\ Len(sc.freqs) > 0
    /\ LET length == SegLength(sc.freqs)
           seg_start == SegStart(sc.freqs)
           seg_stop == SegStop(sc.freqs, length)
           k == (Len(sc.axis) - Len(sc.freqs)) \div segment_length + 1
           a == Times(cmds, SendScan(seg_start, seg_stop, length)) + 1
           n == ReturnedPoints(dev, k, a, length)
       IN  /\ cmds' = cmds \o <<SendScan(seg_start, seg_stop, length),
                                Cmd("data", <<0>>), Cmd("data", <<1>>)>>
           /\ sc' = [sc EXCEPT
                !.array0 = @ \o DeviceData(dev, 0, seg_start, seg_stop, length, n),
                !.array1 = @ \o DeviceData(dev, 1, seg_start, seg_stop, length, n),
                !.frequencies_used = @ \o Linspace(seg_start, seg_stop, length),
                !.freqs = RestFreqs(@),
                !.segs = Append(@, <<Len(sc.axis) - Len(sc.freqs) + 1, length>>)]
    /\ UNCHANGED <<mux, vna, pc, dev, call, rd, seen, io, ra>>

\* A scan() that stores what it has realized so far when a fetch raises.
ScanRaiseStoresPartial ==
    /\ pc = "scan_loop"
    /\ Len(sc.freqs) > 0
    /\ LET length == SegLength(sc.freqs)
           seg_start == SegStart(sc.freqs)
           seg_stop == SegStop(sc.freqs, length)
       IN  cmds' = cmds \o <<SendScan(seg_start, seg_stop, length),
                             Cmd("data", <<0>>)>>
    /\ vna' = [vna EXCEPT !.frequencies = sc.frequencies_used]
    /\ pc' = IF sc.caller = "direct" THEN "scan_raised" ELSE "read_raised"
    /\ UNCHANGED <<mux, sc, dev, call, rd, seen, io, ra>>

\* A pass of the while loop in which data(0) raises (a response line that
\* float() refuses, or an error of the serial line): the exception leaves
\* scan() at once, after the segment's scan command and data 0 were written.
ScanRaise ==
    /\ pc = "scan_loop"
    /\ Len(sc.freqs) > 0
    /\ LET length == SegLength(sc.freqs)
           seg_start == SegStart(sc.freqs)
           seg_stop == SegStop(sc.freqs, length)
       IN  cmds' = cmds \o <<SendScan(seg_start, seg_stop, length),
                             Cmd("data", <<0>>)>>
    /\ pc' = IF sc.caller = "direct" THEN "scan_raised" ELSE "read_raised"
    /\ UNCHANGED <<mux, vna, sc, dev, call, rd, seen, io, ra>>

\* A scan() that stores the realized axis without its last point.
ScanFinishDropLast ==
    /\ pc = "scan_loop"
    /\ Len(sc.freqs) = 0
    /\ vna' = [vna EXCEPT !.frequencies =
                  SubSeq(sc.frequencies_used, 1, Len(sc.frequencies_used) - 1)]
    /\ cmds' = Append(cmds, Cmd("resume", <<>>))
    /\ pc' = IF sc.caller = "direct" THEN "scan_returned" ELSE "read_detect"
    /\ UNCHANGED <<mux, sc, dev, call, rd, seen, io, ra>>

\* A scan() that returns without storing the realized axis.
ScanFinishKeepAxis ==
    /\ pc = "scan_loop"
    /\ Len(sc.freqs) = 0
    /\ cmds' = Append(cmds, Cmd("resume", <<>>))
    /\ pc' = IF sc.caller = "direct" THEN "scan_returned" ELSE "read_detect"
    /\ UNCHANGED <<mux, vna, sc, dev, call, rd, seen, io, ra>>

\* After the loop: the realized axis is stored, resume is sent, scan returns
\* (array0, array1).
ScanFinish ==
    /\ pc = "scan_loop"
    /\ Len(sc.freqs) = 0
    /\ vna' = [vna EXCEPT !.frequencies = sc.frequencies_used]
    /\ cmds' = Append(cmds, Cmd("resume", <<>>))
    /\ pc' = IF sc.caller = "direct" THEN "scan_returned" ELSE "read_detect"
    /\ UNCHANGED <<mux, sc, dev, call, rd, seen, io, ra>>

----------------------------------------------------------------------------
(* SpecScan: a NanoVNA whose axis is set or fetched, then scanned.          *)

\* Axis lengths around every segment boundary up to MaxSegments segments.
PointCounts ==
    {k * segment_length + r : k \in 0..(MaxSegments - 1), r \in {1, 2, 100, 101}}

\* (start, stop) in kHz: the sweeps RFMultiplexer.__init__ asks for by default
\* in rf_mux.py (8 to 21 MHz) and in main.py (38 to 67 MHz).
Sweeps == {<<8000, 21000>>, <<38000, 67000>>}

\* What the instrument lists for n points: whole kHz, unevenly spaced.
DeviceAxis(n) == [i \in 1..n |-> RatOfInt(8000 + 65 * i + 3 * (i % 3))]

Devices ==
    {[dip |-> <<10000, 15000>>, duts |-> <<>>, target |-> g, short_first |-> s,
      forever |-> f, points |-> 101] :
        g \in 0..MaxSegments, s \in {0, 2}, f \in BOOLEAN}

InitScan ==
    /\ vna = VnaInit
    /\ dev \in {d \in Devices :
                  IF d.target = 0 THEN d.short_first = 0 /\ ~d.forever
                  ELSE d.forever = (d.short_first = 0)}
    /\ pc = "idle"
    /\ sc = ScIdle
    /\ cmds = <<>>
    /\ mux = MuxInit(12, 5, 10, 1, -10)
    /\ call = CallIdle
    /\ rd = RdIdle
    /\ seen = {}
    /\ io = IoClosed
    /\ ra = RaIdle

\* The lengths of the axis the instrument lists when scan() asks for it; it
\* is asked only when no axis is stored.
ListedCounts ==
    IF vna.frequencies = FrequenciesNone THEN PointCounts \cup {0} ELSE {0}

NextScan ==
    \/ \E w \in Sweeps, n \in PointCounts \cup {0} :
            SetFrequencies(RatOfInt(w[1]), RatOfInt(w[2]), n)
    \/ \E n \in ListedCounts : ScanBegin(DeviceAxis(n))
    \/ ScanSegment
    \/ ScanRaise
    \/ ScanFinish

SpecScan == InitScan /\ [][NextScan]_vars

----------------------------------------------------------------------------
(* Claims about scan(), checked under SpecScan.                             *)

Returned == pc = "scan_returned"
ScanCmds == SelectSeq(cmds, LAMBDA c : c.name = "scan")
CeilDiv(n, c) == (n + c - 1) \div c

RECURSIVE SumPoints(_)
SumPoints(scans) ==
    IF scans = <<>> THEN 0 ELSE Head(scans).args[3] + SumPoints(Tail(scans))

\* The scan command that names the axis points first .. first + length - 1.
ScanOf(axis, first, length) ==
    Cmd("scan", <<IntHz(axis[first]), IntHz(axis[first + length - 1]), length>>)

\* C6: a returned scan of an axis of N points has issued ceil(N/101) scan
\* commands, one per segment; the segments have at most 101 points each, N in
\* all, follow one another over the axis indices without gap or overlap, each
\* command names its segment's first and last frequency and its point count,
\* and the last segment has N mod 101 points (101 when that is 0).
C6_Partition ==
    Returned =>
        LET n == Len(sc.axis)
            segs == sc.segs
        IN  /\ Len(segs) = CeilDiv(n, segment_length)
            /\ Len(ScanCmds) = Len(segs)
            /\ \A k \in 1..Len(segs) :
                /\ segs[k][2] >= 1 /\ segs[k][2] <= segment_length
                /\ segs[k][1] = IF k = 1 THEN 1 ELSE segs[k - 1][1] + segs[k - 1][2]
                /\ ScanCmds[k] = ScanOf(sc.axis, segs[k][1], segs[k][2])
            /\ SumPoints(ScanCmds) = n
            /\ n > 0 =>
                segs[Len(segs)][2] =
                    IF n % segment_length = 0 THEN segment_length
                    ELSE n % segment_length

\* C6's case: 201 points scanned as 101 + 100.
C6_Witness ==
    /\ Returned /\ Len(sc.axis) = 201
    /\ sc.segs = <<<<1, 101>>, <<102, 100>>>>

\* C7 as stated: no scan command asks for fewer than 2 points, and an axis
\* whose last slice holds one point is realized without that point.
C7_ShortTrailingDropped ==
    /\ \A i \in 1..Len(cmds) : cmds[i].name = "scan" => cmds[i].args[3] >= 2
    /\ (Returned /\ Len(sc.axis) % segment_length = 1) =>
            /\ Len(vna.frequencies) = Len(sc.axis) - 1
            /\ Len(sc.array0) <= Len(sc.axis) - 1

\* C8: after a returned scan of a strictly increasing axis, the stored axis
\* is strictly increasing, has as many points as the scan commands asked for,
\* and runs within each segment from that segment's first frequency to its
\* last.
C8_RoundTrip ==
    (Returned /\ Increasing(sc.axis)) =>
        /\ Increasing(vna.frequencies)
        /\ Len(vna.frequencies) = SumPoints(ScanCmds)
        /\ \A k \in 1..Len(sc.segs) :
            LET first == sc.segs[k][1]
                last == sc.segs[k][1] + sc.segs[k][2] - 1
            IN  /\ last <= Len(vna.frequencies)
                /\ vna.frequencies[first] = sc.axis[first]
                /\ vna.frequencies[last] = sc.axis[last]

\* C8's case: an unevenly spaced axis of several segments, realized as a
\* different, piecewise linear one.
C8_Witness ==
    /\ Returned /\ Len(sc.segs) >= 2
    /\ vna.frequencies # sc.axis
    /\ Len(vna.frequencies) = Len(sc.axis)

\* The glitching segment is a full one of the axis being scanned.
GlitchOnFullSegment ==
    /\ dev.target >= 1
    /\ dev.target * segment_length <= Len(sc.axis)

TargetFirst == (dev.target - 1) * segment_length + 1

\* C9 as stated (Scenario D): when the first two sweeps of a segment come
\* back with 99 of 101 points and the third in full, the returned scan has
\* issued that segment's scan command three times and its arrays hold, for
\* that segment, exactly the 101 samples of the full sweep.
C9_ScenarioD ==
    (Returned /\ GlitchOnFullSegment /\ dev.short_first = 2 /\ ~dev.forever) =>
        LET start == sc.axis[TargetFirst]
            stop == sc.axis[TargetFirst + segment_length - 1]
        IN  /\ Times(cmds, ScanOf(sc.axis, TargetFirst, segment_length)) = 3
            /\ Len(sc.array0) = Len(sc.axis)
            /\ Len(sc.array1) = Len(sc.axis)
            /\ SubSeq(sc.array0, TargetFirst, TargetFirst + segment_length - 1)
                 = DeviceData(dev, 0, start, stop, segment_length, segment_length)

\* C10 as stated (Scenario E): when every sweep of a segment comes back
\* short, scan() fails: it never returns its arrays as a result.
C10_ScenarioE == ~(Returned /\ GlitchOnFullSegment /\ dev.forever)

\* The concatenation of the segments' linear sub-axes over the axis.
RECURSIVE RealizedAxis(_, _)
RealizedAxis(axis, segs) ==
    IF segs = <<>> THEN <<>>
    ELSE LET first == Head(segs)[1]
             length == Head(segs)[2]
         IN  Linspace(axis[first], axis[first + length - 1], length)
                 \o RealizedAxis(axis, Tail(segs))

\* C12: a returned scan has sent resume exactly once, as its last command
\* (so after the last data fetch and not between segments), and the stored
\* axis is the realized axis of that scan: the segments' linear sub-axes
\* over the axis it started from, in order.
C12_ResumeOnceAxisStored ==
    Returned =>
        /\ Times(cmds, Cmd("resume", <<>>)) = 1
        /\ cmds[Len(cmds)] = Cmd("resume", <<>>)
        /\ sc.segs # <<>> => cmds[Len(cmds) - 1] = Cmd("data", <<1>>)
        /\ vna.frequencies = RealizedAxis(sc.axis, sc.segs)

\* C12's case: a returned scan of several segments whose stored axis was
\* replaced by a different realized one.
C12_Witness ==
    /\ Returned /\ Len(sc.segs) >= 2
    /\ vna.frequencies # sc.axis
    /\ cmds[Len(cmds)] = Cmd("resume", <<>>)
    /\ cmds[Len(cmds) - 1] = Cmd("data", <<1>>)

\* The samples segment k of the running scan received on channel ch.
SegData(ch, k) ==
    LET first == sc.segs[k][1]
        length == sc.segs[k][2]
    IN  DeviceData(dev, ch, sc.axis[first], sc.axis[first + length - 1], length,
                   ReturnedPoints(dev, k, 1, length))

RECURSIVE ConcatData(_, _)
ConcatData(ch, k) ==
    IF k = 0 THEN <<>> ELSE ConcatData(ch, k - 1) \o SegData(ch, k)

\* The commands of the running scan that follow the axis fetch, if any.
SegCmds ==
    IF cmds # <<>> /\ cmds[1].name = "frequencies" THEN Tail(cmds) ELSE cmds

\* C13: while a scan of a strictly increasing axis runs and when it has
\* returned, the k-th segment's commands are scan, data 0, data 1 in that
\* order and before the next segment's, the scan commands start at strictly
\* increasing frequencies, and both arrays and the realized axis are the
\* segments' parts concatenated in that order.
C13_AscendingOrder ==
    (pc \in {"scan_loop", "scan_returned"} /\ sc.caller = "direct"
        /\ Increasing(sc.axis)) =>
        /\ Len(SegCmds) >= 3 * Len(sc.segs)
        /\ \A k \in 1..Len(sc.segs) :
            /\ SegCmds[3 * k - 2] = ScanOf(sc.axis, sc.segs[k][1], sc.segs[k][2])
            /\ SegCmds[3 * k - 1] = Cmd("data", <<0>>)
            /\ SegCmds[3 * k] = Cmd("data", <<1>>)
            /\ k > 1 => SegCmds[3 * k - 5].args[1] < SegCmds[3 * k - 2].args[1]
        /\ sc.array0 = ConcatData(0, Len(sc.segs))
        /\ sc.array1 = ConcatData(1, Len(sc.segs))
        /\ sc.frequencies_used = RealizedAxis(sc.axis, sc.segs)

\* C13's case: a returned scan of three commands per segment, two segments.
C13_Witness ==
    /\ Returned /\ Increasing(sc.axis) /\ Len(sc.segs) = 2
    /\ Len(SegCmds) = 7
    /\ SegCmds[1].args[1] < SegCmds[4].args[1]

\* C20 as stated: set_frequencies(start, stop, points) stores exactly the
\* points evenly spaced values from start to stop and sends the sweep
\* bounds to the instrument in the same call.
C20_SetFrequenciesSendsSweep ==
    [][\A w \in Sweeps, n \in PointCounts :
          SetFrequencies(RatOfInt(w[1]), RatOfInt(w[2]), n) =>
              /\ Len(vna'.frequencies) = n
              /\ vna'.frequencies[1] = RatOfInt(w[1])
              /\ vna'.frequencies[n] = RatOfInt(w[2])
              /\ \E i \in 1..Len(cmds') : cmds'[i].name = "sweep"]_vars


\* A scan() has ended in an exception.
Raised == pc = "scan_raised"

\* C24, amended: a scan() that raises in a segment leaves the stored axis
\* as it was when its loop began, which is the axis stored before the call
\* whenever one was stored (a scan called with none stored has stored the
\* fetched axis before its first segment); and while a scan runs the stored
\* axis changes only in the step that ends a loop that has used up the
\* axis, which stores the whole realized axis.
C24_FailedScanKeepsAxis ==
    /\ [](Raised => vna.frequencies = sc.axis)
    /\ []((Raised /\ sc.stored # FrequenciesNone) =>
              vna.frequencies = sc.stored)
    /\ [][(pc = "scan_loop" /\ vna'.frequencies # vna.frequencies) =>
              /\ sc.freqs = <<>>
              /\ pc' = "scan_returned"
              /\ vna'.frequencies = RealizedAxis(sc.axis, sc.segs)]_vars

\* C24's case: a scan of a stored, unevenly spaced axis raised in its
\* second segment, the first having been realized.
C24_Witness ==
    /\ Raised /\ Len(sc.segs) = 1
    /\ sc.stored # FrequenciesNone
    /\ sc.frequencies_used # <<>>
    /\ sc.frequencies_used # SubSeq(sc.axis, 1, Len(sc.frequencies_used))

\* C24 as stated: a scan() that raises leaves the stored axis exactly as
\* it was before the call.
C24_Original == Raised => vna.frequencies = sc.stored

\* C25: a returned scan that directly followed a returned scan, with no
\* set_frequencies between them, has sent the same scan commands and left
\* the stored axis with the same length and values.
C25_RepeatedScanStable ==
    (Returned /\ sc.prev # <<>>) =>
        /\ ScanCmds = sc.prev[1].cmds
        /\ Len(vna.frequencies) = Len(sc.prev[1].axis)
        /\ vna.frequencies = sc.prev[1].axis

\* C25's case: the second of two consecutive scans of a stored axis of
\* several segments has returned.
C25_Witness ==
    /\ Returned /\ sc.prev # <<>>
    /\ Len(sc.segs) >= 2
    /\ sc.stored # FrequenciesNone
    /\ vna.frequencies = sc.axis
    /\ Len(ScanCmds) = Len(sc.segs)

----------------------------------------------------------------------------
(* RFMultiplexer.read(): switch the port, scan, decide, store.              *)

\* Bounds: ports 0..MaxPort are read.
MaxPort == 1

\* The rows of control_bits in SwitchAdapter.switchPort, port 0 first.
control_bits ==
    << <<0,0,0,0>>, <<1,0,0,0>>, <<0,1,0,0>>, <<1,1,0,0>>,
       <<0,0,1,0>>, <<1,0,1,0>>, <<0,1,1,0>>, <<1,1,1,0>>,
       <<0,0,0,1>>, <<1,0,0,1>>, <<0,1,0,1>>, <<1,1,0,1>> >>

\* SwitchAdapter.switchPort accepts ports 0 to 11 and raises otherwise.
PortValid(port_no) == 0 <= port_no /\ port_no <= 11

\* The pins <<LS, V4, V3, V2, V1>> after switchPort(port_no): LS low, and the
\* row of control_bits unpacked as v4, v3, v2, v1.
SwitchPins(port_no) == <<0>> \o control_bits[port_no + 1]

\* The analyzer as RFMultiplexer.__init__ leaves it: 201 points from
\* lo_start - 2 to hi_start + bit_width MHz.
MuxVna(m) ==
    SetFrequenciesVna(VnaInit, RatOfInt((m.lo_start - 2) * MHz),
                      RatOfInt((m.hi_start + m.bit_width) * MHz), 201)

\* The band of the device under test behind a port: none beyond the ports
\* that carry one.
DutOfPort(d, port) ==
    IF port + 1 \in DOMAIN d.duts THEN d.duts[port + 1] ELSE <<1, 0>>

\* The keys of address_dict: read() stores under str(port), readAll() under
\* the port number itself; "0" and 0 are different keys.
Str(port) == <<"str", port>>
IntKey(port) == <<"int", port>>

\* A read(port) whose switch writes the pins before it looks at the port.
ReadEnterPinsFirst(port) ==
    IF ~PortValid(port)
    THEN /\ pc' = "read_raised"
         /\ rd' = [port |-> port, freqs |-> <<>>]
         /\ cmds' = <<>>
         /\ mux' = [mux EXCEPT !.pins = <<0, 1, 1, 1, 1>>]
         /\ UNCHANGED <<vna, sc, dev>>
    ELSE LET v == IF vna.frequencies # FrequenciesNone THEN vna
                  ELSE SetFrequenciesVna(vna,
                           RatOfInt((mux.lo_start - 2) * MHz),
                           RatOfInt((mux.hi_start + mux.bit_width + 2) * MHz),
                           201)
         IN  /\ mux' = [mux EXCEPT !.pins = SwitchPins(port)]
             /\ dev' = [dev EXCEPT !.dip = DutOfPort(dev, port)]
             /\ rd' = [port |-> port, freqs |-> v.frequencies]
             /\ vna' = v
             /\ cmds' = <<Cmd("resume", <<>>)>>
             /\ sc' = [freqs |-> v.frequencies, array0 |-> <<>>,
                       array1 |-> <<>>, frequencies_used |-> <<>>,
                       axis |-> v.frequencies, segs |-> <<>>,
                       caller |-> "read", stored |-> vna.frequencies,
                       prev |-> <<>>]
             /\ pc' = "scan_loop"

\* read(port), up to the loop of scan(): the port is switched, resume is
\* sent, the stored axis is taken as freqs (set first if none is stored), and
\* scan() starts.  An invalid port raises out of switchPort before a pin is
\* written, and read() ends there.
ReadEnter(port) ==
    IF ~PortValid(port)
    THEN /\ pc' = "read_raised"
         /\ rd' = [port |-> port, freqs |-> <<>>]
         /\ cmds' = <<>>
         /\ UNCHANGED <<mux, vna, sc, dev>>
    ELSE LET v == IF vna.frequencies # FrequenciesNone THEN vna
                  ELSE SetFrequenciesVna(vna,
                           RatOfInt((mux.lo_start - 2) * MHz),
                           RatOfInt((mux.hi_start + mux.bit_width + 2) * MHz),
                           201)
         IN  /\ mux' = [mux EXCEPT !.pins = SwitchPins(port)]
             /\ dev' = [dev EXCEPT !.dip = DutOfPort(dev, port)]
             /\ rd' = [port |-> port, freqs |-> v.frequencies]
             /\ vna' = v
             /\ cmds' = <<Cmd("resume", <<>>)>>
             /\ sc' = [freqs |-> v.frequencies, array0 |-> <<>>,
                       array1 |-> <<>>, frequencies_used |-> <<>>,
                       axis |-> v.frequencies, segs |-> <<>>,
                       caller |-> "read", stored |-> vna.frequencies,
                       prev |-> <<>>]
             /\ pc' = "scan_loop"

\* read(port) called on the multiplexer directly.
ReadBegin(port) ==
    /\ Idle
    /\ ReadEnter(port)
    /\ UNCHANGED <<call, seen, io, ra>>

\* The _detect_bit call of read(): freqs is the axis taken before the scan,
\* s11 is scan()[0].  An exception leaves read() at once.
ReadDetect ==
    /\ pc = "read_detect"
    /\ call' = [frequencies |-> rd.freqs, s11 |-> sc.array0,
                result |-> DetectBit(mux, rd.freqs, sc.array0)]
    /\ seen' = seen \cup {Observed(mux, call')}
    /\ pc' = IF call'.result \in Decisions THEN "read_store" ELSE "read_raised"
    /\ UNCHANGED <<mux, vna, sc, dev, cmds, rd, io, ra>>

\* address_dict[str(port)] = bit, and read() returns bit.
ReadStore ==
    /\ pc = "read_store"
    /\ mux' = [mux EXCEPT !.address_dict =
                  [k \in DOMAIN @ \cup {Str(rd.port)} |->
                      IF k = Str(rd.port) THEN call.result ELSE @[k]]]
    /\ pc' = "read_returned"
    /\ UNCHANGED <<vna, sc, dev, cmds, call, rd, seen, io, ra>>

----------------------------------------------------------------------------
(* Spec: a multiplexer whose ports are read, and whose analyzer is also     *)
(* scanned directly, in any order.                                          *)

\* The bands of the devices under test: one that answers in the low window,
\* one that answers in the high window, one that does not answer.
DutBands == << <<10000, 15000>>, <<16000, 21000>>, <<1, 0>> >>

\* The devices behind ports 0..MaxPort: the three kinds in turn, from kind k.
DutsFrom(k) == [p \in 1..(MaxPort + 1) |-> DutBands[((p + k) % 3) + 1]]

\* The ports read: those that carry a device, and one no switch has.
Ports == (0..MaxPort) \cup {12}

Init ==
    /\ mux = MuxInit(12, 5, 10, 1, -10)
    /\ vna = MuxVna(mux)
    /\ \E k \in 0..2, g \in {0, 2} :
          dev = [dip |-> <<1, 0>>, duts |-> DutsFrom(k), target |-> g,
                 short_first |-> 0, forever |-> g # 0, points |-> 101]
    /\ pc = "idle"
    /\ sc = ScIdle
    /\ cmds = <<>>
    /\ call = CallIdle
    /\ rd = RdIdle
    /\ seen = {}
    /\ io = IoClosed
    /\ ra = RaIdle

Next ==
    \/ \E port \in Ports : ReadBegin(port)
    \/ ScanBegin(<<>>)
    \/ ScanSegment
    \/ ScanFinish
    \/ ReadDetect
    \/ ReadStore

Spec == Init /\ [][Next]_vars

----------------------------------------------------------------------------
(* Claims about _detect_bit inside read(), checked under Spec.              *)

\* Two observed calls were given the same axis and the same samples.
SameInput(a, b) == a.frequencies = b.frequencies /\ a.s11 = b.s11

\* C5: _detect_bit is a pure function of (axis, samples): any two calls with
\* the same axis and samples gave the same decision, whatever reads and
\* scans came between them, and the step that makes the call changes
\* neither address_dict nor the stored frequency axis.
C5_DetectBitPure ==
    /\ [](\A a \in seen, b \in seen : SameInput(a, b) => a.result = b.result)
    /\ [][pc = "read_detect" =>
              /\ mux'.address_dict = mux.address_dict
              /\ vna'.frequencies = vna.frequencies]_vars

\* C5's case: the same axis and samples were decided twice, the bit map
\* having changed between the two calls.
C5_Witness ==
    \E a \in seen, b \in seen :
        /\ SameInput(a, b)
        /\ a.address_dict # b.address_dict
        /\ a.result \in Decisions


\* C11 as stated: whenever read() reaches the bit decision, the axis and the
\* samples it hands to _detect_bit have the same length and sample i is the
\* reflection measured at frequency i.
C11_AxisSamplesAligned ==
    pc = "read_detect" =>
        /\ Len(sc.array0) = Len(rd.freqs)
        /\ \A i \in 1..Len(sc.array0) :
              sc.array0[i] = DeviceSample(dev, 0, rd.freqs[i])


----------------------------------------------------------------------------
(* The serial session of the NanoVNA: open, close, send_command,            *)
(* fetch_data, and the parsing of data() and fetch_frequencies().           *)

\* Bounds: commands written and connections opened in one behaviour.
MaxCmds == 3
MaxOpens == 2

\* What arrives on the line: an echoed command line or a response line (both
\* end in a newline) or the prompt "ch>" (no newline), as its tokens.
Item(kind, toks) == [kind |-> kind, toks |-> toks, stale |-> FALSE]
Prompt == Item("prompt", <<"ch>">>)

\* float(token), in tenths, for the tokens float() accepts.
NumTokens == {"1.0", "0.3", "0.1"}
FloatOf(tok) == CASE tok = "1.0" -> 10 [] tok = "0.3" -> 3 [] tok = "0.1" -> 1

\* data(): every non-empty line is split at blanks and its first two tokens
\* are converted; float() of a token that is no number raises ValueError,
\* d[1] of a one-token line raises IndexError, and either leaves data().
RECURSIVE ParseData(_)
ParseData(lines) ==
    IF lines = <<>> THEN [error |-> "none", x |-> <<>>]
    ELSE LET d == Head(lines)
             rest == ParseData(Tail(lines))
         IN  IF d = <<>> THEN rest
             ELSE IF d[1] \notin NumTokens THEN [error |-> "ValueError", x |-> <<>>]
             ELSE IF Len(d) < 2 THEN [error |-> "IndexError", x |-> <<>>]
             ELSE IF d[2] \notin NumTokens THEN [error |-> "ValueError", x |-> <<>>]
             ELSE IF rest.error # "none" THEN rest
             ELSE [error |-> "none",
                   x |-> << <<FloatOf(d[1]), FloatOf(d[2])>> >> \o rest.x]

\* fetch_frequencies(): float(line) of every non-empty line; a line of
\* several tokens or of a token that is no number raises ValueError.
RECURSIVE ParseFrequencies(_)
ParseFrequencies(lines) ==
    IF lines = <<>> THEN [error |-> "none", x |-> <<>>]
    ELSE LET d == Head(lines)
             rest == ParseFrequencies(Tail(lines))
         IN  IF d = <<>> THEN rest
             ELSE IF Len(d) # 1 \/ d[1] \notin NumTokens
                  THEN [error |-> "ValueError", x |-> <<>>]
             ELSE IF rest.error # "none" THEN rest
             ELSE [error |-> "none", x |-> <<RatOfInt(FloatOf(d[1]))>> \o rest.x]

\* The methods that call fetch_data() after send_command().
NeedsFetch(c) == c.name \in {"data", "frequencies"}

\* An open() that connects again whatever self.serial holds.
OpenIoAlways(s) ==
    [s EXCEPT !.serial = s.opened + 1, !.conns = @ \cup {s.opened + 1},
              !.opened = @ + 1]

\* open(): a connection is made only when self.serial is None.
OpenIo(s) ==
    IF s.serial = 0
    THEN [s EXCEPT !.serial = s.opened + 1, !.conns = @ \cup {s.opened + 1},
                   !.opened = @ + 1]
    ELSE s

\* A close() that calls self.serial.close() whatever self.serial holds.
CloseIoUnguarded(s) ==
    IF s.serial = 0
    THEN [s EXCEPT !.last = [op |-> "AttributeError", was |-> 0]]
    ELSE [s EXCEPT !.serial = 0, !.conns = @ \ {s.serial}, !.rx = <<>>,
                   !.tx = <<>>, !.busy = <<>>, !.unread = 0,
                   !.last = [op |-> "close", was |-> s.serial]]

\* close(): the connection, if there is one, is closed; self.serial is None.
\* What was on the line is lost with the connection.
CloseIo(s) ==
    IF s.serial = 0
    THEN [s EXCEPT !.last = [op |-> "close", was |-> 0]]
    ELSE [s EXCEPT !.serial = 0, !.conns = @ \ {s.serial}, !.rx = <<>>,
                   !.tx = <<>>, !.busy = <<>>, !.unread = 0,
                   !.last = [op |-> "close", was |-> s.serial]]

\* No method of the session is running.
IoIdle == io.pc = "idle"

\* A connection can still be made within the bound.
CanOpen == io.serial # 0 \/ io.opened < MaxOpens

Open ==
    /\ IoIdle /\ CanOpen
    /\ io' = [OpenIo(io) EXCEPT !.last = [op |-> "open", was |-> io.serial]]
    /\ UNCHANGED <<mux, vna, pc, sc, dev, cmds, call, rd, seen, ra>>

Close ==
    /\ IoIdle
    /\ io' = CloseIo(io)
    /\ UNCHANGED <<mux, vna, pc, sc, dev, cmds, call, rd, seen, ra>>

\* send_command(cmd), up to the write: open(), then serial.write.  Nothing
\* is read or discarded before the write; what is in rx stays there.
Write(c) ==
    /\ IoIdle /\ CanOpen
    /\ io.written < MaxCmds
    /\ io' = [OpenIo(io) EXCEPT
                 !.rx = [i \in DOMAIN @ |-> [@[i] EXCEPT !.stale = TRUE]],
                 !.tx = Append(@, c),
                 !.written = @ + 1,
                 !.unread = @ + 1,
                 !.pc = "echo",
                 !.op = <<c>>]
    /\ UNCHANGED <<mux, vna, pc, sc, dev, cmds, call, rd, seen, ra>>

\* The index of the first item of rx that ends a line; 0 if there is none.
FirstNewline(rx) ==
    IF \E i \in DOMAIN rx : rx[i].kind # "prompt"
    THEN CHOOSE i \in DOMAIN rx :
            /\ rx[i].kind # "prompt"
            /\ \A j \in 1..(i - 1) : rx[j].kind = "prompt"
    ELSE 0

\* How many of the items are prompts, and whether one was already received
\* when the running command was written.
Prompts(items) == Cardinality({i \in DOMAIN items : items[i].kind = "prompt"})
AnyStale(items) == \E i \in DOMAIN items : items[i].stale

\* send_command(cmd), the readline(): everything up to and including the
\* first newline is read and dropped.  It waits while no newline is there.
Readline ==
    /\ io.pc = "echo"
    /\ FirstNewline(io.rx) # 0
    /\ LET i == FirstNewline(io.rx)
           read == SubSeq(io.rx, 1, i)
           c == io.op[1]
       IN  io' = [io EXCEPT
                    !.rx = SubSeq(@, i + 1, Len(@)),
                    !.unread = Max(0, @ - Prompts(read)),
                    !.stale_read = @ \/ AnyStale(read),
                    !.acc = <<>>,
                    !.pc = IF NeedsFetch(c) THEN "fetch" ELSE "idle",
                    !.last = IF NeedsFetch(c) THEN @
                             ELSE [op |-> c.name, was |-> io.serial]]
    /\ UNCHANGED <<mux, vna, pc, sc, dev, cmds, call, rd, seen, ra>>

\* fetch_data(), one line or the prompt: a line is added to the result, the
\* prompt ends the loop and the caller parses the result.  serial.read()
\* waits while nothing is there; the loop has no other exit.
Fetch ==
    /\ io.pc = "fetch"
    /\ io.rx # <<>>
    /\ LET h == Head(io.rx)
           c == io.op[1]
       IN  io' = IF h.kind = "prompt"
                 THEN [io EXCEPT
                         !.rx = Tail(@),
                         !.unread = Max(0, @ - 1),
                         !.stale_read = @ \/ h.stale,
                         !.raw = io.acc,
                         !.result = IF c.name = "data" THEN ParseData(io.acc)
                                    ELSE ParseFrequencies(io.acc),
                         !.pc = "idle",
                         !.last = [op |-> c.name, was |-> io.serial]]
                 ELSE [io EXCEPT
                         !.rx = Tail(@),
                         !.stale_read = @ \/ h.stale,
                         !.acc = Append(@, h.toks)]
    /\ UNCHANGED <<mux, vna, pc, sc, dev, cmds, call, rd, seen, ra>>

\* The instrument echoes the next command it received.
DevEcho ==
    /\ io.tx # <<>> /\ io.busy = <<>>
    /\ io' = [io EXCEPT !.rx = Append(@, Item("echo", <<Head(io.tx).name>>)),
                        !.busy = <<Head(io.tx)>>,
                        !.tx = Tail(@)]
    /\ UNCHANGED <<mux, vna, pc, sc, dev, cmds, call, rd, seen, ra>>

\* The instrument answers the command it echoed: the lines, then the prompt
\* (an instrument that hangs sends the lines and no prompt).
DevAnswer(lines) ==
    /\ io.busy # <<>>
    /\ io' = [io EXCEPT
                !.rx = @ \o [i \in DOMAIN lines |-> Item("line", lines[i])]
                         \o (IF io.silent THEN <<>> ELSE <<Prompt>>),
                !.busy = <<>>]
    /\ UNCHANGED <<mux, vna, pc, sc, dev, cmds, call, rd, seen, ra>>


----------------------------------------------------------------------------
(* SpecSerial: a session opened, closed and used for commands in any order, *)
(* and an instrument that answers them.                                     *)

\* resume(), send_scan(8e6, 21e6, 101), data(0) and fetch_frequencies().
Commands ==
    {Cmd("resume", <<>>), SendScan(RatOfInt(8000), RatOfInt(21000), 101),
     Cmd("data", <<0>>), Cmd("frequencies", <<>>)}

\* What the instrument may answer to data: two samples; a line of one
\* token; a line whose first token is no number; a line of three tokens; a
\* blank line.
DataResponses ==
    { << <<"1.0", "0.1">>, <<"0.3", "0.1">> >>,
      << <<"1.0", "0.1">>, <<"0.3">> >>,
      << <<"x", "0.1">>, <<"0.3", "0.1">> >>,
      << <<"1.0", "0.1">>, <<"0.3", "0.1", "1.0">> >>,
      << <<"1.0", "0.1">>, <<>> >> }

\* What it may answer to frequencies: two frequencies; a line of two tokens.
FreqResponses == { << <<"0.3">>, <<"1.0">> >>, << <<"0.3", "1.0">> >> }

ResponsesTo(c) ==
    IF c.name = "data" THEN DataResponses
    ELSE IF c.name = "frequencies" THEN FreqResponses
    ELSE {<<>>}

InitSerial ==
    /\ vna = VnaInit
    /\ dev = DevIdle
    /\ pc = "idle"
    /\ sc = ScIdle
    /\ cmds = <<>>
    /\ mux = MuxInit(12, 5, 10, 1, -10)
    /\ call = CallIdle
    /\ rd = RdIdle
    /\ seen = {}
    /\ \E hangs \in BOOLEAN : io = [IoClosed EXCEPT !.silent = hangs]
    /\ ra = RaIdle

NextSerial ==
    \/ Open
    \/ Close
    \/ \E c \in Commands : Write(c)
    \/ Readline
    \/ Fetch
    \/ DevEcho
    \/ \E lines \in ResponsesTo(IF io.busy = <<>> THEN Cmd("resume", <<>>)
                                ELSE io.busy[1]) : DevAnswer(lines)

SpecSerial == InitSerial /\ [][NextSerial]_vars

\* The same, where a step that can be taken is eventually taken: neither
\* the host nor the instrument stops for no reason.
SpecSerialLive == SpecSerial /\ WF_vars(NextSerial)

----------------------------------------------------------------------------
(* Claims about the session, checked under SpecSerial.                      *)

\* C14: close() raises nothing in any state and leaves the session closed:
\* after it self.serial is None and no connection is held, whether the
\* session was open or already closed; a close step on a closed session
\* changes nothing else.
C14_CloseIdempotent ==
    /\ [](io.last.op # "AttributeError")
    /\ [][Close => (io'.serial = 0 /\ io'.conns = {}
                        /\ io'.last.op = "close")]_vars
    /\ [][(Close /\ io.serial = 0) =>
              io' = [io EXCEPT !.last = [op |-> "close", was |-> 0]]]_vars

\* C14's case: close() has returned on a session that was already closed
\* after it had been open.
C14_Witness ==
    /\ io.last = [op |-> "close", was |-> 0]
    /\ io.opened >= 1
    /\ io.serial = 0

\* C15: the session never holds more than one connection, the one
\* self.serial names, and open() on an open session makes none and keeps
\* the handle.
C15_OpenIdempotent ==
    /\ [](Cardinality(io.conns) <= 1)
    /\ [](io.conns = IF io.serial = 0 THEN {} ELSE {io.serial})
    /\ [][((Open \/ \E c \in Commands : Write(c)) /\ io.serial # 0) =>
              (io'.serial = io.serial /\ io'.conns = io.conns
                  /\ io'.opened = io.opened)]_vars

\* C15's case: open() has returned on a session that was open, after an
\* earlier connection had been closed.
C15_Witness ==
    /\ io.last.op = "open" /\ io.last.was # 0
    /\ io.opened >= 2
    /\ io.conns = {io.serial}

\* C16 as stated: no read of send_command or of the fetch that follows it
\* consumes anything that had been received before the command was written.
C16_StaleInputDiscarded == ~io.stale_read

\* C17 as stated: a fetch_data() that has started returns or fails.
C17_FetchTerminates == (io.pc = "fetch") ~> (io.pc = "idle")

\* Exactly two tokens, both numbers.
WellFormed(d) == Len(d) = 2 /\ d[1] \in NumTokens /\ d[2] \in NumTokens

RECURSIVE SamplesOf(_)
SamplesOf(lines) ==
    IF lines = <<>> THEN <<>>
    ELSE (IF WellFormed(Head(lines))
          THEN << <<FloatOf(Head(lines)[1]), FloatOf(Head(lines)[2])>> >>
          ELSE <<>>) \o SamplesOf(Tail(lines))

\* C18 as stated: data() returns, and returns exactly the samples of the
\* well-formed lines of the response in the order received.
C18_MalformedSkipped ==
    io.last.op = "data" =>
        io.result = [error |-> "none", x |-> SamplesOf(io.raw)]

\* C19 as stated: when a command is written, the prompt of every command
\* written before it on this connection has been read.
C19_RequestResponse == io.unread <= 1


----------------------------------------------------------------------------
(* Claims about read() with an invalid port, checked under Spec.            *)

\* C22: a read() of a port outside 0..11 raises out of the switch before
\* anything is done: the step leaves the multiplexer, its pins and its bit
\* map as they were, writes no command, and the read ends raised; no entry
\* for such a port is ever in the bit map.
C22_InvalidPortRejected ==
    /\ [][\A port \in Ports :
            (ReadBegin(port) /\ ~PortValid(port)) =>
                /\ mux' = mux
                /\ cmds' = <<>>
                /\ pc' = "read_raised"]_vars
    /\ [](\A port \in Ports :
            ~PortValid(port) => Str(port) \notin DOMAIN mux.address_dict)

\* C22's case: an invalid port was refused after a valid one had been
\* switched to and stored; the pins still select the earlier port.
C22_Witness ==
    /\ pc = "read_raised" /\ ~PortValid(rd.port)
    /\ mux.pins = SwitchPins(1)
    /\ DOMAIN mux.address_dict # {}


----------------------------------------------------------------------------
(* RFMultiplexer.readAll(), and the read() of main.py.                      *)

\* The analyzer as main.py's RFMultiplexer.__init__ leaves it: 201 points
\* from lo_start - 2 to hi_start + bit_width + 2 MHz.
MainVna(m) ==
    SetFrequenciesVna(VnaInit, RatOfInt((m.lo_start - 2) * MHz),
                      RatOfInt((m.hi_start + m.bit_width + 2) * MHz), 201)

\* main.py's read(port), up to the decision: switchPort returns at once,
\* resume is sent, the stored axis is taken as freqs, and s11 is one
\* data(0): the points of whatever sweep the instrument is running.
MainReadEnter(port) ==
    /\ rd' = [port |-> port, freqs |-> vna.frequencies]
    /\ cmds' = <<Cmd("resume", <<>>), Cmd("data", <<0>>)>>
    /\ sc' = [ScIdle EXCEPT
                !.array0 = DeviceData(dev, 0, vna.frequencies[1],
                                      vna.frequencies[Len(vna.frequencies)],
                                      dev.points, dev.points),
                !.caller = "main"]
    /\ pc' = "read_detect"
    /\ UNCHANGED <<mux, vna, dev>>

\* read(port) of either module.
ReadEnterOf(port) ==
    IF ra.impl = "rf_mux" THEN ReadEnter(port) ELSE MainReadEnter(port)

\* readAll(), up to its loop: results = {}.
ReadAllBegin ==
    /\ Idle
    /\ ra' = [ra EXCEPT !.active = TRUE, !.port = 0, !.results = <<>>,
                        !.order = <<>>]
    /\ pc' = "readall_loop"
    /\ UNCHANGED <<mux, vna, sc, dev, cmds, call, rd, seen, io>>

\* The loop of readAll() calls read(port) for the next port of range(size).
ReadAllRead ==
    /\ ra.active /\ pc = "readall_loop"
    /\ ra.port < mux.size
    /\ ReadEnterOf(ra.port)
    /\ ra' = [ra EXCEPT !.order = Append(@, ra.port)]
    /\ UNCHANGED <<call, seen, io>>

\* read() has returned bit: results[port] = bit, and the loop goes on.
ReadAllCollect ==
    /\ ra.active /\ pc = "read_returned"
    /\ ra' = [ra EXCEPT
                !.results = [k \in DOMAIN @ \cup {IntKey(ra.port)} |->
                                IF k = IntKey(ra.port) THEN call.result ELSE @[k]],
                !.port = @ + 1]
    /\ pc' = "readall_loop"
    /\ UNCHANGED <<mux, vna, sc, dev, cmds, call, rd, seen, io>>

\* read() has raised: nothing in readAll() catches it, the batch ends.
ReadAllRaise ==
    /\ ra.active /\ pc = "read_raised"
    /\ ra' = [ra EXCEPT !.active = FALSE]
    /\ pc' = "readall_raised"
    /\ UNCHANGED <<mux, vna, sc, dev, cmds, call, rd, seen, io>>

\* After the loop: address_dict = results, and readAll() returns results.
ReadAllReturn ==
    /\ ra.active /\ pc = "readall_loop"
    /\ ra.port >= mux.size
    /\ mux' = [mux EXCEPT !.address_dict = ra.results]
    /\ ra' = [ra EXCEPT !.active = FALSE]
    /\ pc' = "readall_returned"
    /\ UNCHANGED <<vna, sc, dev, cmds, call, rd, seen, io>>

----------------------------------------------------------------------------
(* SpecBatch: a multiplexer of either module whose ports are read in        *)
(* batches, one batch after another.                                        *)

\* The sizes given to the constructor: as many ports as carry a device, and
\* one more than the switch has.
Sizes == {MaxPort + 1, 13}

\* The device main.py's multiplexer looks at (its switch does nothing):
\* one that answers in the low window, in the high window, or not at all.
\* Its instrument sweeps 201 points, as many as the stored axis has, or its
\* own 101.
MainBands == << <<40000, 50000>>, <<55000, 65000>>, <<1, 0>> >>

InitBatch ==
    /\ \E impl \in {"rf_mux", "main"}, size \in Sizes, k \in 0..2, g \in {0, 2} :
          /\ ra = [RaIdle EXCEPT !.impl = impl]
          /\ mux = IF impl = "rf_mux" THEN MuxInit(size, 5, 10, 1, -10)
                   ELSE MuxInit(size, 10, 40, 5, -5)
          /\ vna = IF impl = "rf_mux" THEN MuxVna(mux) ELSE MainVna(mux)
          /\ dev = [dip |-> IF impl = "rf_mux" THEN <<1, 0>> ELSE MainBands[k + 1],
                    duts |-> IF impl = "rf_mux" THEN DutsFrom(k) ELSE <<>>,
                    target |-> g, short_first |-> 0, forever |-> g # 0,
                    points |-> IF impl = "rf_mux" \/ g = 0 THEN 201 ELSE 101]
    /\ pc = "idle"
    /\ sc = ScIdle
    /\ cmds = <<>>
    /\ call = CallIdle
    /\ rd = RdIdle
    /\ seen = {}
    /\ io = IoClosed

NextBatch ==
    \/ ReadAllBegin
    \/ ReadAllRead
    \/ ScanSegment
    \/ ScanFinish
    \/ ReadDetect
    \/ ReadStore
    \/ ReadAllCollect
    \/ ReadAllRaise
    \/ ReadAllReturn

SpecBatch == InitBatch /\ [][NextBatch]_vars


----------------------------------------------------------------------------
(* Claims about readAll(), checked under SpecBatch.                         *)

\* C21 as stated: a port whose activation fails does not end the batch; no
\* readAll() ends raised because a read raised out of the switch.
C21_ActivationFailureNotFatal ==
    ~(pc = "readall_raised" /\ ~PortValid(rd.port))

\* The scan commands of the running read.
ReadScans == SelectSeq(cmds, LAMBDA c : c.name = "scan")

\* C23 as stated: when a read() reaches the decision its port has been
\* switched to and exactly one segmented scan of the axis has run, whose
\* channel-0 samples are what is decided on; readAll() reads the ports in
\* ascending order from 0, and when it returns it has read each port of
\* 0..size-1 once and returned and stored one decision for each.
C23_OrchestrationOrder ==
    /\ pc = "read_detect" =>
          /\ mux.pins = SwitchPins(rd.port)
          /\ Len(ReadScans) = CeilDiv(Len(rd.freqs), segment_length)
          /\ Len(ReadScans) = Len(sc.segs)
          /\ \A k \in 1..Len(sc.segs) :
                ReadScans[k] = ScanOf(rd.freqs, sc.segs[k][1], sc.segs[k][2])
          /\ cmds[1] = Cmd("resume", <<>>)
    /\ ra.order = [i \in 1..Len(ra.order) |-> i - 1]
    /\ pc = "readall_returned" =>
          /\ Len(ra.order) = mux.size
          /\ DOMAIN ra.results = {IntKey(port) : port \in 0..(mux.size - 1)}
          /\ \A k \in DOMAIN ra.results : ra.results[k] \in Decisions
          /\ mux.address_dict = ra.results

============================================================================
